---- MODULE Spec2Model ----
(***************************************************************************)
(* libavutil/error.c: the error registry (error_entries), av_strerror and  *)
(* the per-thread accessor av_err2str.                                     *)
(*                                                                         *)
(* A char is its ASCII code, a C string the bytes before the first NUL of  *)
(* a buffer.  A buffer is a sequence of bytes: C index k is element k + 1. *)
(***************************************************************************)
EXTENDS Integers, Sequences, FiniteSets, TLC

\* ---------------------------------------------------------------- bounds
\* Threads calling av_err2str.
NumThreads == 2
\* Largest errbuf_size a direct av_strerror call is given.
MaxCap == 66
\* Bytes of the caller's memory that lie behind the largest buffer.
GuardLen == 64
\* Calls of av_strerror / av_err2str in one behaviour.
MaxCalls == 2

\* ------------------------------------------------------------- constants
\* #define AV_ERROR_MAX_STRING_SIZE 64
AV_ERROR_MAX_STRING_SIZE == 64
\* '\0'
NUL == 0
\* The content of caller memory before a call: a byte no message contains.
Filler == 2^8 - 1
\* int is 32 bits wide.
IntMax == 2^30 - 1 + 2^30
IntMin == -IntMax - 1

\* <errno.h>
EINVAL == 22
ENOMEM == 12
EIO == 5
ENOENT == 2
ESPIPE == 29
ERANGE == 34
AVERROR(e) == -e

\* The codes of error.h: the negated four-character tags (FFERRTAG) and the
\* three "changed" codes.  The registry's codes are pairwise distinct.
AVERROR_BSF_NOT_FOUND == -1179861752
AVERROR_BUG == -558323010
AVERROR_BUG2 == -541545794
AVERROR_BUFFER_TOO_SMALL == -1397118274
AVERROR_DECODER_NOT_FOUND == -1128613112
AVERROR_DEMUXER_NOT_FOUND == -1296385272
AVERROR_ENCODER_NOT_FOUND == -1129203192
AVERROR_EOF == -541478725
AVERROR_EXIT == -1414092869
AVERROR_EXTERNAL == -542398533
AVERROR_FILTER_NOT_FOUND == -1279870712
AVERROR_INPUT_CHANGED == -1668179713
AVERROR_INVALIDDATA == -1094995529
AVERROR_MUXER_NOT_FOUND == -1481985528
AVERROR_OPTION_NOT_FOUND == -1414549496
AVERROR_OUTPUT_CHANGED == -1668179714
AVERROR_PATCHWELCOME == -1163346256
AVERROR_PROTOCOL_NOT_FOUND == -1330794744
AVERROR_STREAM_NOT_FOUND == -1381258232
AVERROR_UNKNOWN == -1313558101
AVERROR_EXPERIMENTAL == -733130664
AVERROR_INPUT_AND_OUTPUT_CHANGED == -1668179715
AVERROR_HTTP_BAD_REQUEST == -808465656
AVERROR_HTTP_UNAUTHORIZED == -825242872
AVERROR_HTTP_FORBIDDEN == -858797304
AVERROR_HTTP_NOT_FOUND == -875574520
AVERROR_HTTP_TOO_MANY_REQUESTS == -959591672
AVERROR_HTTP_OTHER_4XX == -1482175736
AVERROR_HTTP_SERVER_ERROR == -1482175992

\* A const char * is NULL or points to a string.
NULL == << >>
Ptr(s) == <<s>>
Deref(p) == p[1]

\* struct error_entry { int num; const char *tag; const char *str; } and the
\* table error_entries, in the order of the source.  A row's initialisers fill
\* num, tag, str in this order; a member without an initialiser is NULL.
error_entries == <<
    \* { ERROR_TAG(BSF_NOT_FOUND), "Bitstream filter not found" }
    [num |-> AVERROR_BSF_NOT_FOUND,
     tag |-> Ptr(<<66, 83, 70, 95, 78, 79, 84, 95, 70, 79, 85, 78, 68>>),
     str |-> Ptr(<<66, 105, 116, 115, 116, 114, 101, 97, 109, 32, 102, 105, 108, 116, 101, 114, 32, 110, 111, 116, 32, 102, 111, 117, 110, 100>>)],
    \* { ERROR_TAG(BUG), "Internal bug, should not have happened" }
    [num |-> AVERROR_BUG,
     tag |-> Ptr(<<66, 85, 71>>),
     str |-> Ptr(<<73, 110, 116, 101, 114, 110, 97, 108, 32, 98, 117, 103, 44, 32, 115, 104, 111, 117, 108, 100, 32, 110, 111, 116, 32, 104, 97, 118, 101, 32, 104, 97, 112, 112, 101, 110, 101, 100>>)],
    \* { ERROR_TAG(BUG2), "Internal bug, should not have happened" }
    [num |-> AVERROR_BUG2,
     tag |-> Ptr(<<66, 85, 71, 50>>),
     str |-> Ptr(<<73, 110, 116, 101, 114, 110, 97, 108, 32, 98, 117, 103, 44, 32, 115, 104, 111, 117, 108, 100, 32, 110, 111, 116, 32, 104, 97, 118, 101, 32, 104, 97, 112, 112, 101, 110, 101, 100>>)],
    \* { ERROR_TAG(BUFFER_TOO_SMALL), "Buffer too small" }
    [num |-> AVERROR_BUFFER_TOO_SMALL,
     tag |-> Ptr(<<66, 85, 70, 70, 69, 82, 95, 84, 79, 79, 95, 83, 77, 65, 76, 76>>),
     str |-> Ptr(<<66, 117, 102, 102, 101, 114, 32, 116, 111, 111, 32, 115, 109, 97, 108, 108>>)],
    \* { ERROR_TAG(DECODER_NOT_FOUND), "Decoder not found" }
    [num |-> AVERROR_DECODER_NOT_FOUND,
     tag |-> Ptr(<<68, 69, 67, 79, 68, 69, 82, 95, 78, 79, 84, 95, 70, 79, 85, 78, 68>>),
     str |-> Ptr(<<68, 101, 99, 111, 100, 101, 114, 32, 110, 111, 116, 32, 102, 111, 117, 110, 100>>)],
    \* { ERROR_TAG(DEMUXER_NOT_FOUND), "Demuxer not found" }
    [num |-> AVERROR_DEMUXER_NOT_FOUND,
     tag |-> Ptr(<<68, 69, 77, 85, 88, 69, 82, 95, 78, 79, 84, 95, 70, 79, 85, 78, 68>>),
     str |-> Ptr(<<68, 101, 109, 117, 120, 101, 114, 32, 110, 111, 116, 32, 102, 111, 117, 110, 100>>)],
    \* { ERROR_TAG(ENCODER_NOT_FOUND), "Encoder not found" }
    [num |-> AVERROR_ENCODER_NOT_FOUND,
     tag |-> Ptr(<<69, 78, 67, 79, 68, 69, 82, 95, 78, 79, 84, 95, 70, 79, 85, 78, 68>>),
     str |-> Ptr(<<69, 110, 99, 111, 100, 101, 114, 32, 110, 111, 116, 32, 102, 111, 117, 110, 100>>)],
    \* { ERROR_TAG(EOF), "End of file" }
    [num |-> AVERROR_EOF,
     tag |-> Ptr(<<69, 79, 70>>),
     str |-> Ptr(<<69, 110, 100, 32, 111, 102, 32, 102, 105, 108, 101>>)],
    \* { ERROR_TAG(EXIT), "Immediate exit requested" }
    [num |-> AVERROR_EXIT,
     tag |-> Ptr(<<69, 88, 73, 84>>),
     str |-> Ptr(<<73, 109, 109, 101, 100, 105, 97, 116, 101, 32, 101, 120, 105, 116, 32, 114, 101, 113, 117, 101, 115, 116, 101, 100>>)],
    \* { ERROR_TAG(EXTERNAL), "Generic error in an external library" }
    [num |-> AVERROR_EXTERNAL,
     tag |-> Ptr(<<69, 88, 84, 69, 82, 78, 65, 76>>),
     str |-> Ptr(<<71, 101, 110, 101, 114, 105, 99, 32, 101, 114, 114, 111, 114, 32, 105, 110, 32, 97, 110, 32, 101, 120, 116, 101, 114, 110, 97, 108, 32, 108, 105, 98, 114, 97, 114, 121>>)],
    \* { ERROR_TAG(FILTER_NOT_FOUND), "Filter not found" }
    [num |-> AVERROR_FILTER_NOT_FOUND,
     tag |-> Ptr(<<70, 73, 76, 84, 69, 82, 95, 78, 79, 84, 95, 70, 79, 85, 78, 68>>),
     str |-> Ptr(<<70, 105, 108, 116, 101, 114, 32, 110, 111, 116, 32, 102, 111, 117, 110, 100>>)],
    \* { ERROR_TAG(INPUT_CHANGED), "Input changed" }
    [num |-> AVERROR_INPUT_CHANGED,
     tag |-> Ptr(<<73, 78, 80, 85, 84, 95, 67, 72, 65, 78, 71, 69, 68>>),
     str |-> Ptr(<<73, 110, 112, 117, 116, 32, 99, 104, 97, 110, 103, 101, 100>>)],
    \* { ERROR_TAG(INVALIDDATA), "Invalid data found when processing input" }
    [num |-> AVERROR_INVALIDDATA,
     tag |-> Ptr(<<73, 78, 86, 65, 76, 73, 68, 68, 65, 84, 65>>),
     str |-> Ptr(<<73, 110, 118, 97, 108, 105, 100, 32, 100, 97, 116, 97, 32, 102, 111, 117, 110, 100, 32, 119, 104, 101, 110, 32, 112, 114, 111, 99, 101, 115, 115, 105, 110, 103, 32, 105, 110, 112, 117, 116>>)],
    \* { ERROR_TAG(MUXER_NOT_FOUND), "Muxer not found" }
    [num |-> AVERROR_MUXER_NOT_FOUND,
     tag |-> Ptr(<<77, 85, 88, 69, 82, 95, 78, 79, 84, 95, 70, 79, 85, 78, 68>>),
     str |-> Ptr(<<77, 117, 120, 101, 114, 32, 110, 111, 116, 32, 102, 111, 117, 110, 100>>)],
    \* { ERROR_TAG(OPTION_NOT_FOUND), "Option not found" }
    [num |-> AVERROR_OPTION_NOT_FOUND,
     tag |-> Ptr(<<79, 80, 84, 73, 79, 78, 95, 78, 79, 84, 95, 70, 79, 85, 78, 68>>),
     str |-> Ptr(<<79, 112, 116, 105, 111, 110, 32, 110, 111, 116, 32, 102, 111, 117, 110, 100>>)],
    \* { ERROR_TAG(OUTPUT_CHANGED), "Output changed" }
    [num |-> AVERROR_OUTPUT_CHANGED,
     tag |-> Ptr(<<79, 85, 84, 80, 85, 84, 95, 67, 72, 65, 78, 71, 69, 68>>),
     str |-> Ptr(<<79, 117, 116, 112, 117, 116, 32, 99, 104, 97, 110, 103, 101, 100>>)],
    \* { ERROR_TAG(PATCHWELCOME), "Not yet implemented in FFmpeg, patches welcome" }
    [num |-> AVERROR_PATCHWELCOME,
     tag |-> Ptr(<<80, 65, 84, 67, 72, 87, 69, 76, 67, 79, 77, 69>>),
     str |-> Ptr(<<78, 111, 116, 32, 121, 101, 116, 32, 105, 109, 112, 108, 101, 109, 101, 110, 116, 101, 100, 32, 105, 110, 32, 70, 70, 109, 112, 101, 103, 44, 32, 112, 97, 116, 99, 104, 101, 115, 32, 119, 101, 108, 99, 111, 109, 101>>)],
    \* { ERROR_TAG(PROTOCOL_NOT_FOUND), "Protocol not found" }
    [num |-> AVERROR_PROTOCOL_NOT_FOUND,
     tag |-> Ptr(<<80, 82, 79, 84, 79, 67, 79, 76, 95, 78, 79, 84, 95, 70, 79, 85, 78, 68>>),
     str |-> Ptr(<<80, 114, 111, 116, 111, 99, 111, 108, 32, 110, 111, 116, 32, 102, 111, 117, 110, 100>>)],
    \* { ERROR_TAG(STREAM_NOT_FOUND), "Stream not found" }
    [num |-> AVERROR_STREAM_NOT_FOUND,
     tag |-> Ptr(<<83, 84, 82, 69, 65, 77, 95, 78, 79, 84, 95, 70, 79, 85, 78, 68>>),
     str |-> Ptr(<<83, 116, 114, 101, 97, 109, 32, 110, 111, 116, 32, 102, 111, 117, 110, 100>>)],
    \* { ERROR_TAG(UNKNOWN), "Unknown error occurred" }
    [num |-> AVERROR_UNKNOWN,
     tag |-> Ptr(<<85, 78, 75, 78, 79, 87, 78>>),
     str |-> Ptr(<<85, 110, 107, 110, 111, 119, 110, 32, 101, 114, 114, 111, 114, 32, 111, 99, 99, 117, 114, 114, 101, 100>>)],
    \* { ERROR_TAG(EXPERIMENTAL), "Experimental feature" }
    [num |-> AVERROR_EXPERIMENTAL,
     tag |-> Ptr(<<69, 88, 80, 69, 82, 73, 77, 69, 78, 84, 65, 76>>),
     str |-> Ptr(<<69, 120, 112, 101, 114, 105, 109, 101, 110, 116, 97, 108, 32, 102, 101, 97, 116, 117, 114, 101>>)],
    \* { ERROR_TAG(INPUT_AND_OUTPUT_CHANGED), "Input and output changed" }
    [num |-> AVERROR_INPUT_AND_OUTPUT_CHANGED,
     tag |-> Ptr(<<73, 78, 80, 85, 84, 95, 65, 78, 68, 95, 79, 85, 84, 80, 85, 84, 95, 67, 72, 65, 78, 71, 69, 68>>),
     str |-> Ptr(<<73, 110, 112, 117, 116, 32, 97, 110, 100, 32, 111, 117, 116, 112, 117, 116, 32, 99, 104, 97, 110, 103, 101, 100>>)],
    \* { ERROR_TAG(HTTP_BAD_REQUEST), "Server returned 400 Bad Request" }
    [num |-> AVERROR_HTTP_BAD_REQUEST,
     tag |-> Ptr(<<72, 84, 84, 80, 95, 66, 65, 68, 95, 82, 69, 81, 85, 69, 83, 84>>),
     str |-> Ptr(<<83, 101, 114, 118, 101, 114, 32, 114, 101, 116, 117, 114, 110, 101, 100, 32, 52, 48, 48, 32, 66, 97, 100, 32, 82, 101, 113, 117, 101, 115, 116>>)],
    \* { ERROR_TAG(HTTP_UNAUTHORIZED), "Server returned 401 Unauthorized (authorization failed)" }
    [num |-> AVERROR_HTTP_UNAUTHORIZED,
     tag |-> Ptr(<<72, 84, 84, 80, 95, 85, 78, 65, 85, 84, 72, 79, 82, 73, 90, 69, 68>>),
     str |-> Ptr(<<83, 101, 114, 118, 101, 114, 32, 114, 101, 116, 117, 114, 110, 101, 100, 32, 52, 48, 49, 32, 85, 110, 97, 117, 116, 104, 111, 114, 105, 122, 101, 100, 32, 40, 97, 117, 116, 104, 111, 114, 105, 122, 97, 116, 105, 111, 110, 32, 102, 97, 105, 108, 101, 100, 41>>)],
    \* { ERROR_TAG(HTTP_FORBIDDEN), "Server returned 403 Forbidden (access denied)" }
    [num |-> AVERROR_HTTP_FORBIDDEN,
     tag |-> Ptr(<<72, 84, 84, 80, 95, 70, 79, 82, 66, 73, 68, 68, 69, 78>>),
     str |-> Ptr(<<83, 101, 114, 118, 101, 114, 32, 114, 101, 116, 117, 114, 110, 101, 100, 32, 52, 48, 51, 32, 70, 111, 114, 98, 105, 100, 100, 101, 110, 32, 40, 97, 99, 99, 101, 115, 115, 32, 100, 101, 110, 105, 101, 100, 41>>)],
    \* { ERROR_TAG(HTTP_NOT_FOUND), "Server returned 404 Not Found" }
    [num |-> AVERROR_HTTP_NOT_FOUND,
     tag |-> Ptr(<<72, 84, 84, 80, 95, 78, 79, 84, 95, 70, 79, 85, 78, 68>>),
     str |-> Ptr(<<83, 101, 114, 118, 101, 114, 32, 114, 101, 116, 117, 114, 110, 101, 100, 32, 52, 48, 52, 32, 78, 111, 116, 32, 70, 111, 117, 110, 100>>)],
    \* { ERROR_TAG(HTTP_TOO_MANY_REQUESTS), "Server returned 429 Too Many Requests" }
    [num |-> AVERROR_HTTP_TOO_MANY_REQUESTS,
     tag |-> Ptr(<<72, 84, 84, 80, 95, 84, 79, 79, 95, 77, 65, 78, 89, 95, 82, 69, 81, 85, 69, 83, 84, 83>>),
     str |-> Ptr(<<83, 101, 114, 118, 101, 114, 32, 114, 101, 116, 117, 114, 110, 101, 100, 32, 52, 50, 57, 32, 84, 111, 111, 32, 77, 97, 110, 121, 32, 82, 101, 113, 117, 101, 115, 116, 115>>)],
    \* { ERROR_TAG(HTTP_OTHER_4XX), "Server returned 4XX Client Error, but not one of 40{0,1,3,4}" }
    [num |-> AVERROR_HTTP_OTHER_4XX,
     tag |-> Ptr(<<72, 84, 84, 80, 95, 79, 84, 72, 69, 82, 95, 52, 88, 88>>),
     str |-> Ptr(<<83, 101, 114, 118, 101, 114, 32, 114, 101, 116, 117, 114, 110, 101, 100, 32, 52, 88, 88, 32, 67, 108, 105, 101, 110, 116, 32, 69, 114, 114, 111, 114, 44, 32, 98, 117, 116, 32, 110, 111, 116, 32, 111, 110, 101, 32, 111, 102, 32, 52, 48, 123, 48, 44, 49, 44, 51, 44, 52, 125>>)],
    \* { ERROR_TAG(HTTP_SERVER_ERROR), "Server returned 5XX Server Error reply" }
    [num |-> AVERROR_HTTP_SERVER_ERROR,
     tag |-> Ptr(<<72, 84, 84, 80, 95, 83, 69, 82, 86, 69, 82, 95, 69, 82, 82, 79, 82>>),
     str |-> Ptr(<<83, 101, 114, 118, 101, 114, 32, 114, 101, 116, 117, 114, 110, 101, 100, 32, 53, 88, 88, 32, 83, 101, 114, 118, 101, 114, 32, 69, 114, 114, 111, 114, 32, 114, 101, 112, 108, 121>>)],
    \* { AVERROR(EINVAL), "Invalid argument" }: two initialisers, so the text is the tag and str is NULL
    [num |-> AVERROR(EINVAL),
     tag |-> Ptr(<<73, 110, 118, 97, 108, 105, 100, 32, 97, 114, 103, 117, 109, 101, 110, 116>>),
     str |-> NULL],
    \* { AVERROR(ENOMEM), "Cannot allocate memory" }: two initialisers, so the text is the tag and str is NULL
    [num |-> AVERROR(ENOMEM),
     tag |-> Ptr(<<67, 97, 110, 110, 111, 116, 32, 97, 108, 108, 111, 99, 97, 116, 101, 32, 109, 101, 109, 111, 114, 121>>),
     str |-> NULL],
    \* { AVERROR(EIO), "I/O error" }: two initialisers, so the text is the tag and str is NULL
    [num |-> AVERROR(EIO),
     tag |-> Ptr(<<73, 47, 79, 32, 101, 114, 114, 111, 114>>),
     str |-> NULL],
    \* { AVERROR(ENOENT), "No such file or directory" }: two initialisers, so the text is the tag and str is NULL
    [num |-> AVERROR(ENOENT),
     tag |-> Ptr(<<78, 111, 32, 115, 117, 99, 104, 32, 102, 105, 108, 101, 32, 111, 114, 32, 100, 105, 114, 101, 99, 116, 111, 114, 121>>),
     str |-> NULL],
    \* { AVERROR(ESPIPE), "Illegal seek" }: two initialisers, so the text is the tag and str is NULL
    [num |-> AVERROR(ESPIPE),
     tag |-> Ptr(<<73, 108, 108, 101, 103, 97, 108, 32, 115, 101, 101, 107>>),
     str |-> NULL]
>>

\* The error numbers the C library describes (strerror_r), with its wording.
strerror_messages == (
    \* "Success"
    0 :> <<83, 117, 99, 99, 101, 115, 115>> @@
    \* "Operation not permitted"
    1 :> <<79, 112, 101, 114, 97, 116, 105, 111, 110, 32, 110, 111, 116, 32, 112, 101, 114, 109, 105, 116, 116, 101, 100>> @@
    \* "No such file or directory"
    2 :> <<78, 111, 32, 115, 117, 99, 104, 32, 102, 105, 108, 101, 32, 111, 114, 32, 100, 105, 114, 101, 99, 116, 111, 114, 121>> @@
    \* "Input/output error"
    5 :> <<73, 110, 112, 117, 116, 47, 111, 117, 116, 112, 117, 116, 32, 101, 114, 114, 111, 114>> @@
    \* "Cannot allocate memory"
    12 :> <<67, 97, 110, 110, 111, 116, 32, 97, 108, 108, 111, 99, 97, 116, 101, 32, 109, 101, 109, 111, 114, 121>> @@
    \* "Permission denied"
    13 :> <<80, 101, 114, 109, 105, 115, 115, 105, 111, 110, 32, 100, 101, 110, 105, 101, 100>> @@
    \* "Invalid argument"
    22 :> <<73, 110, 118, 97, 108, 105, 100, 32, 97, 114, 103, 117, 109, 101, 110, 116>> @@
    \* "Illegal seek"
    29 :> <<73, 108, 108, 101, 103, 97, 108, 32, 115, 101, 101, 107>> @@
    \* "Broken pipe"
    32 :> <<66, 114, 111, 107, 101, 110, 32, 112, 105, 112, 101>>
)

\* The message identifiers the system message table holds (FormatMessageA).
FormatMessage_messages == (
    \* "The operation completed successfully.\r\n"
    0 :> <<84, 104, 101, 32, 111, 112, 101, 114, 97, 116, 105, 111, 110, 32, 99, 111, 109, 112, 108, 101, 116, 101, 100, 32, 115, 117, 99, 99, 101, 115, 115, 102, 117, 108, 108, 121, 46, 13, 10>> @@
    \* "Incorrect function.\r\n"
    1 :> <<73, 110, 99, 111, 114, 114, 101, 99, 116, 32, 102, 117, 110, 99, 116, 105, 111, 110, 46, 13, 10>> @@
    \* "The system cannot find the file specified.\r\n"
    2 :> <<84, 104, 101, 32, 115, 121, 115, 116, 101, 109, 32, 99, 97, 110, 110, 111, 116, 32, 102, 105, 110, 100, 32, 116, 104, 101, 32, 102, 105, 108, 101, 32, 115, 112, 101, 99, 105, 102, 105, 101, 100, 46, 13, 10>> @@
    \* "Access is denied.\r\n"
    5 :> <<65, 99, 99, 101, 115, 115, 32, 105, 115, 32, 100, 101, 110, 105, 101, 100, 46, 13, 10>> @@
    \* "The access code is invalid.\r\n"
    12 :> <<84, 104, 101, 32, 97, 99, 99, 101, 115, 115, 32, 99, 111, 100, 101, 32, 105, 115, 32, 105, 110, 118, 97, 108, 105, 100, 46, 13, 10>> @@
    \* "The data is invalid.\r\n"
    13 :> <<84, 104, 101, 32, 100, 97, 116, 97, 32, 105, 115, 32, 105, 110, 118, 97, 108, 105, 100, 46, 13, 10>> @@
    \* "The device does not recognize the command.\r\n"
    22 :> <<84, 104, 101, 32, 100, 101, 118, 105, 99, 101, 32, 100, 111, 101, 115, 32, 110, 111, 116, 32, 114, 101, 99, 111, 103, 110, 105, 122, 101, 32, 116, 104, 101, 32, 99, 111, 109, 109, 97, 110, 100, 46, 13, 10>> @@
    \* "The system cannot write to the specified device.\r\n"
    29 :> <<84, 104, 101, 32, 115, 121, 115, 116, 101, 109, 32, 99, 97, 110, 110, 111, 116, 32, 119, 114, 105, 116, 101, 32, 116, 111, 32, 116, 104, 101, 32, 115, 112, 101, 99, 105, 102, 105, 101, 100, 32, 100, 101, 118, 105, 99, 101, 46, 13, 10>> @@
    \* "The process cannot access the file because it is being used by another process.\r\n"
    32 :> <<84, 104, 101, 32, 112, 114, 111, 99, 101, 115, 115, 32, 99, 97, 110, 110, 111, 116, 32, 97, 99, 99, 101, 115, 115, 32, 116, 104, 101, 32, 102, 105, 108, 101, 32, 98, 101, 99, 97, 117, 115, 101, 32, 105, 116, 32, 105, 115, 32, 98, 101, 105, 110, 103, 32, 117, 115, 101, 100, 32, 98, 121, 32, 97, 110, 111, 116, 104, 101, 114, 32, 112, 114, 111, 99, 101, 115, 115, 46, 13, 10>>
)

\* "Unknown error code: "
UnknownErrorFormat == <<85, 110, 107, 110, 111, 119, 110, 32, 101, 114, 114, 111, 114, 32, 99, 111, 100, 101, 58, 32>>
\* "Unknown error " (the text the C library leaves for a number it does not know)
LibcUnknownText == <<85, 110, 107, 110, 111, 119, 110, 32, 101, 114, 114, 111, 114, 32>>

\* ------------------------------------------------------------ build, data
\* The preprocessor's three cases: _WIN32, else __GNUC__ or __clang__, else
\* neither.  THREAD_LOCAL is a thread-local storage specifier in the first two
\* and empty in the third, where av_error_buf is one static array.
Builds == {"win32", "gnuc", "other"}
THREAD_LOCAL(b) == b \in {"win32", "gnuc"}

Threads == 1..NumThreads
\* The size of the memory a caller's errbuf lies in.
MemSize == MaxCap + GuardLen

Min(a, b) == IF a < b THEN a ELSE b
Take(s, n) == SubSeq(s, 1, Min(n, Len(s)))

\* The C string a buffer holds: the bytes before its first NUL.
CStr(buf) ==
    IF \E i \in 1..Len(buf) : buf[i] = NUL
    THEN LET n == CHOOSE i \in 1..Len(buf) :
                     buf[i] = NUL /\ \A j \in 1..(i - 1) : buf[j] # NUL
         IN  SubSeq(buf, 1, n - 1)
    ELSE buf

\* Storing the bytes of s at buf[0], buf[1], ...
Store(buf, s) == [i \in 1..Len(buf) |-> IF i <= Len(s) THEN s[i] ELSE buf[i]]

\* printf's %d.
RECURSIVE Digits(_)
Digits(n) == IF n < 10 THEN <<48 + n>> ELSE Digits(n \div 10) \o <<48 + (n % 10)>>
Decimal(n) ==
    IF n >= 0 THEN Digits(n)
    ELSE LET d == (10 - (n % 10)) % 10
             q == -((n + d) \div 10)
         IN  <<45>> \o (IF q = 0 THEN << >> ELSE Digits(q)) \o <<48 + d>>

\* snprintf(buf, size, "Unknown error code: %d", errnum): at most size - 1 bytes
\* of the text and a NUL; nothing when size is 0.
snprintf(buf, size, format, errnum) ==
    IF size = 0 THEN buf
    ELSE Store(buf, Take(format \o Decimal(errnum), size - 1) \o <<NUL>>)

\* av_strlcpy(dst, src, size) of avstring.c: copies at most size - 1 bytes of
\* src and terminates dst; writes nothing when size is 0.
av_strlcpy(dst, src, size) ==
    IF size = 0 THEN dst
    ELSE Store(dst, Take(src, size - 1) \o <<NUL>>)

\* What a platform call that failed for want of room may have stored: the part
\* of its text that fits, terminated.
Partial(buf, text, size) ==
    IF size = 0 THEN buf
    ELSE Store(buf, Take(text, size - 1) \o <<NUL>>)

\* -errnum in 32 bits.  The negation of INT_MIN overflows: the program wraps
\* to INT_MIN or traps, as the build has it.
Negate(errnum) == IF errnum = IntMin THEN IntMin ELSE -errnum
NegationOverflows(errnum) == errnum = IntMin

\* strerror_r(num, buf, buflen), the XSI version: 0 and the description when it
\* fits, ERANGE when the buffer is too small, EINVAL for a number the library
\* does not know.  What a failed call leaves in buf is unspecified: nothing, or
\* as much of a text as fits.
strerror_r(num, buf, buflen) ==
    IF num \in DOMAIN strerror_messages
    THEN LET msg == strerror_messages[num] IN
         IF Len(msg) < buflen
         THEN {[ret |-> 0, buf |-> Store(buf, msg \o <<NUL>>)]}
         ELSE {[ret |-> ERANGE, buf |-> buf],
               [ret |-> ERANGE, buf |-> Partial(buf, msg, buflen)]}
    ELSE {[ret |-> EINVAL, buf |-> buf],
          [ret |-> EINVAL, buf |-> Partial(buf, LibcUnknownText \o Decimal(num), buflen)]}

\* FormatMessageA(FORMAT_MESSAGE_FROM_SYSTEM | FORMAT_MESSAGE_IGNORE_INSERTS,
\* NULL, id, 0, buf, size, NULL): the number of chars stored, without the NUL;
\* 0 when the table has no such message or the buffer is too small.  id is a
\* DWORD: a negative int converts to a value of 2^31 or more, which no system
\* message has.
FormatMessageA(id, buf, size) ==
    IF id \in DOMAIN FormatMessage_messages
    THEN LET msg == FormatMessage_messages[id] IN
         IF Len(msg) < size
         THEN {[len |-> Len(msg), buf |-> Store(buf, msg \o <<NUL>>)]}
         ELSE {[len |-> 0, buf |-> buf],
               [len |-> 0, buf |-> Partial(buf, msg, size)]}
    ELSE {[len |-> 0, buf |-> buf]}

\* ------------------------------------------------------------ av_strerror
\* ClearBuf without its test of errbuf_size.
ClearBuf_Unguarded(errbuf, errbuf_size) == Store(errbuf, <<NUL>>)

\* if (errbuf_size > 0) errbuf[0] = '\0';
ClearBuf(errbuf, errbuf_size) ==
    IF errbuf_size > 0 THEN Store(errbuf, <<NUL>>) ELSE errbuf

\* The scan of error_entries: errstr of the first entry whose num is errnum,
\* else NULL.
RECURSIVE ScanEntries(_, _)
ScanEntries(errnum, i) ==
    IF i > Len(error_entries) THEN NULL
    ELSE IF errnum = error_entries[i].num THEN error_entries[i].str
    ELSE ScanEntries(errnum, i + 1)
FindEntry(errnum) == ScanEntries(errnum, 1)

\* CopyEntry copying the bytes of the message without a terminator.
CopyEntry_Unterminated(errbuf, errstr, errbuf_size) ==
    IF errbuf_size = 0 THEN errbuf
    ELSE Store(errbuf, Take(Deref(errstr), errbuf_size - 1))

\* av_strlcpy(errbuf, errstr, errbuf_size);
CopyEntry(errbuf, errstr, errbuf_size) ==
    av_strlcpy(errbuf, Deref(errstr), errbuf_size)

\* UnknownError without the assignment to ret.
UnknownError_RetUnset(errnum, errbuf, errbuf_size) ==
    [ret |-> 0,
     errbuf |-> snprintf(errbuf, errbuf_size, UnknownErrorFormat, errnum)]

\* UnknownError with a format that lacks the %d.
UnknownError_NoNumber(errnum, errbuf, errbuf_size) ==
    [ret |-> AVERROR_UNKNOWN,
     errbuf |-> Partial(errbuf, UnknownErrorFormat, errbuf_size)]

\* UnknownError without the snprintf.
UnknownError_NoText(errnum, errbuf, errbuf_size) ==
    [ret |-> AVERROR_UNKNOWN, errbuf |-> errbuf]

\* snprintf(errbuf, errbuf_size, "Unknown error code: %d", errnum);
\* ret = AVERROR_UNKNOWN;
UnknownError(errnum, errbuf, errbuf_size) ==
    [ret |-> AVERROR_UNKNOWN,
     errbuf |-> snprintf(errbuf, errbuf_size, UnknownErrorFormat, errnum)]

\* #ifdef _WIN32: FormatMessageA, and the fallback when it returns 0.
Win32Error(errnum, errbuf, errbuf_size) ==
    { IF o.len = 0 THEN UnknownError(errnum, o.buf, errbuf_size)
      ELSE [ret |-> 0, errbuf |-> o.buf] :
      o \in FormatMessageA(Negate(errnum), errbuf, errbuf_size) }

\* #else: strerror_r, and the fallback when it does not return 0.
PosixError(errnum, errbuf, errbuf_size) ==
    { IF o.ret # 0 THEN UnknownError(errnum, o.buf, errbuf_size)
      ELSE [ret |-> o.ret, errbuf |-> o.buf] :
      o \in strerror_r(Negate(errnum), errbuf, errbuf_size) }

SystemError(b, errnum, errbuf, errbuf_size) ==
    IF b = "win32" THEN Win32Error(errnum, errbuf, errbuf_size)
    ELSE PosixError(errnum, errbuf, errbuf_size)

\* int av_strerror(int errnum, char *errbuf, size_t errbuf_size): the outcomes
\* of one call on build b.  sys: the platform facility was called; trap: the
\* call did not return.
av_strerror(b, errnum, errbuf, errbuf_size) ==
    LET cleared == ClearBuf(errbuf, errbuf_size)
        errstr == FindEntry(errnum)
    IN  IF errstr # NULL
        THEN {[ret |-> 0, errbuf |-> CopyEntry(cleared, errstr, errbuf_size),
               sys |-> FALSE, trap |-> FALSE]}
        ELSE {[ret |-> o.ret, errbuf |-> o.errbuf, sys |-> TRUE, trap |-> FALSE] :
                 o \in SystemError(b, errnum, cleared, errbuf_size)}
             \cup (IF NegationOverflows(errnum)
                   THEN {[ret |-> 0, errbuf |-> cleared, sys |-> FALSE, trap |-> TRUE]}
                   ELSE {})

\* ------------------------------------------------------------------ state
VARIABLES
    build,          \* the build of the library
    av_error_buf,   \* static THREAD_LOCAL char av_error_buf[64], per slot
    th,             \* per thread: its last av_err2str call and what it read
    direct,         \* the last av_strerror call into a caller's buffer
    ncalls,         \* calls made
    crashed         \* the process was stopped by a trap

vars == <<build, av_error_buf, th, direct, ncalls, crashed>>

\* The av_error_buf thread t names: its own, or the one static array.
BufferOf(b, t) == IF THREAD_LOCAL(b) THEN t ELSE 1

\* A caller's memory before a call.
CallerMemory == [i \in 1..MemSize |-> Filler]

NoCall ==
    [calls |-> 0, errnum |-> 0, ret |-> 0, str |-> << >>,
     prev_errnum |-> 0, prev_str |-> << >>, read |-> FALSE, seen |-> << >>]

Init ==
    /\ build \in Builds
    /\ av_error_buf = [t \in Threads |-> [i \in 1..AV_ERROR_MAX_STRING_SIZE |-> 0]]
    /\ th = [t \in Threads |-> NoCall]
    /\ direct = [done |-> FALSE, errnum |-> 0, size |-> 0, ret |-> 0,
                 sys |-> FALSE, errbuf |-> CallerMemory]
    /\ ncalls = 0
    /\ crashed = FALSE

\* A thread calls av_strerror(errnum, errbuf, size) on a buffer of its own.
Strerror(errnum, size) ==
    /\ ~crashed
    /\ ncalls < MaxCalls
    /\ \E o \in av_strerror(build, errnum, CallerMemory, size) :
          /\ crashed' = o.trap
          /\ direct' = IF o.trap THEN direct
                       ELSE [done |-> TRUE, errnum |-> errnum, size |-> size,
                             ret |-> o.ret, sys |-> o.sys, errbuf |-> o.errbuf]
    /\ ncalls' = ncalls + 1
    /\ UNCHANGED <<build, av_error_buf, th>>

\* const char *av_err2str(int errnum): thread t calls it and takes the string
\* at the returned pointer.
Err2str(t, errnum) ==
    /\ ~crashed
    /\ ncalls < MaxCalls
    /\ LET slot == BufferOf(build, t) IN
       \E o \in av_strerror(build, errnum, av_error_buf[slot], AV_ERROR_MAX_STRING_SIZE) :
          /\ crashed' = o.trap
          /\ av_error_buf' = [av_error_buf EXCEPT ![slot] = o.errbuf]
          /\ th' = IF o.trap THEN th
                   ELSE [th EXCEPT ![t] =
                            [calls |-> th[t].calls + 1, errnum |-> errnum,
                             ret |-> o.ret, str |-> CStr(o.errbuf),
                             prev_errnum |-> th[t].errnum, prev_str |-> th[t].str,
                             read |-> FALSE, seen |-> << >>]]
    /\ ncalls' = ncalls + 1
    /\ UNCHANGED <<build, direct>>

\* Thread t reads the string at the pointer its last av_err2str call returned.
Read(t) ==
    /\ ~crashed
    /\ th[t].calls > 0
    /\ th' = [th EXCEPT ![t].read = TRUE,
                        ![t].seen = CStr(av_error_buf[BufferOf(build, t)])]
    /\ UNCHANGED <<build, av_error_buf, direct, ncalls, crashed>>

\* ------------------------------------------------------------------ inputs
RegistryCodes == {error_entries[i].num : i \in 1..Len(error_entries)}
\* Negated error numbers the platform describes and the registry does not hold.
PlatformCodes == {0, -1, -13, -32}
\* Codes neither holds.
UnknownCodes == {-999999, 1, EINVAL, IntMax, IntMin}
Codes == RegistryCodes \cup PlatformCodes \cup UnknownCodes

\* The codes and sizes of the calls that run beside each other.
ThreadCodes == {AVERROR_EOF, AVERROR_BUG, AVERROR_BUG2, AVERROR(EIO), -1, -999999}
ThreadSizes == {0, 1, 16, AV_ERROR_MAX_STRING_SIZE}

\* Threads calling av_err2str and av_strerror and reading what they got.
Next ==
    \/ \E t \in Threads, errnum \in ThreadCodes : Err2str(t, errnum)
    \/ \E t \in Threads : Read(t)
    \/ \E errnum \in ThreadCodes, size \in ThreadSizes : Strerror(errnum, size)

Spec == Init /\ [][Next]_vars

\* The codes av_err2str is called with in sequences: of the registry the
\* first and the last entry, the shortest and the longest messages, the two
\* entries sharing a message, the entries without str; and every other code.
Err2strCodes ==
    {AVERROR_BSF_NOT_FOUND, AVERROR_BUG, AVERROR_BUG2, AVERROR_EOF,
     AVERROR_INVALIDDATA, AVERROR_PATCHWELCOME, AVERROR_UNKNOWN,
     AVERROR_INPUT_CHANGED, AVERROR_INPUT_AND_OUTPUT_CHANGED,
     AVERROR_HTTP_UNAUTHORIZED, AVERROR_HTTP_OTHER_4XX, AVERROR_HTTP_SERVER_ERROR,
     AVERROR(EINVAL), AVERROR(ENOMEM), AVERROR(EIO), AVERROR(ENOENT), AVERROR(ESPIPE)}
    \cup PlatformCodes \cup UnknownCodes

\* Sequences of av_err2str calls.
NextErr2str == \E t \in Threads, errnum \in Err2strCodes : Err2str(t, errnum)

SpecErr2str == Init /\ [][NextErr2str]_vars

\* One av_strerror call, on every code and every size.
NextStrerror ==
    \E errnum \in Codes, size \in 0..MaxCap : ncalls = 0 /\ Strerror(errnum, size)

SpecStrerror == Init /\ [][NextStrerror]_vars


\* ------------------------------------------------------------------ claims
\* The text of row i of error_entries: its string literal.
EntryMessage(i) ==
    IF error_entries[i].str # NULL THEN Deref(error_entries[i].str)
    ELSE Deref(error_entries[i].tag)

\* code is the negation of an error number the platform of build b describes.
PlatformDescribes(b, code) ==
    \E n \in DOMAIN (IF b = "win32" THEN FormatMessage_messages ELSE strerror_messages) :
        code = -n

\* code is in neither numbering.
Unrecognised(b, code) == code \notin RegistryCodes /\ ~PlatformDescribes(b, code)

\* buf holds the first min(Len(text), size - 1) bytes of text and then a NUL.
HoldsText(buf, text, size) ==
    LET n == Min(Len(text), size - 1)
    IN  /\ \A j \in 1..n : buf[j] = text[j]
        /\ buf[n + 1] = NUL

\* sub occurs in s.
Contains(s, sub) ==
    \E k \in 0..(Len(s) - Len(sub)) : SubSeq(s, k + 1, k + Len(sub)) = sub

\* "Unknown error code: <errnum>"
FallbackText(errnum) == UnknownErrorFormat \o Decimal(errnum)

\* What av_err2str(errnum) yields on a thread whose buffer was never written.
OwnText(b, errnum) ==
    {CStr(o.errbuf) :
        o \in {x \in av_strerror(b, errnum, [i \in 1..AV_ERROR_MAX_STRING_SIZE |-> 0],
                                 AV_ERROR_MAX_STRING_SIZE) : ~x.trap}}

\* C1: for every entry of error_entries and every capacity >= 1, av_strerror
\* returns 0, leaves the first min(len, capacity - 1) bytes of the entry's own
\* message and a NUL in the buffer, and does not consult the platform.
C1_RegistryOverrides ==
    direct.done =>
        \A i \in 1..Len(error_entries) :
            (direct.errnum = error_entries[i].num /\ direct.size >= 1) =>
                /\ direct.ret = 0
                /\ HoldsText(direct.errbuf, EntryMessage(i), direct.size)
                /\ ~direct.sys

\* C2: av_strerror writes no byte at an index >= capacity (none at all at
\* capacity 0), and at capacity >= 1 the buffer holds a NUL within its first
\* capacity bytes when the call returns.
C2_WritesStayInBounds ==
    direct.done =>
        /\ \A i \in (direct.size + 1)..MemSize : direct.errbuf[i] = Filler
        /\ direct.size >= 1 => \E i \in 1..direct.size : direct.errbuf[i] = NUL

\* A call at capacity 1 that took the platform path and ended in the fallback.
C2_Witness ==
    /\ direct.done /\ direct.size = 1 /\ direct.sys
    /\ direct.ret = AVERROR_UNKNOWN /\ direct.errbuf[1] = NUL

\* C3: for a code outside the registry whose negation the platform describes,
\* av_strerror returns 0 at every capacity >= 1; a description too long for the
\* buffer is not reported as an error.
C3_TruncationIsNotAnError ==
    (/\ direct.done /\ direct.size >= 1
     /\ direct.errnum \notin RegistryCodes
     /\ PlatformDescribes(build, direct.errnum)) => direct.ret = 0

\* C4: for a code in neither numbering and every capacity >= 1, av_strerror
\* returns AVERROR_UNKNOWN and leaves the first capacity - 1 bytes of
\* "Unknown error code: <code>" and a NUL; code -999999 at capacity 16 gives
\* "Unknown error c".
C4_UnknownCodeFallback ==
    (direct.done /\ direct.size >= 1 /\ Unrecognised(build, direct.errnum)) =>
        /\ direct.ret = AVERROR_UNKNOWN
        /\ HoldsText(direct.errbuf, FallbackText(direct.errnum), direct.size)
        /\ (direct.errnum = -999999 /\ direct.size = 16) =>
              CStr(direct.errbuf) =
                  <<85, 110, 107, 110, 111, 119, 110, 32, 101, 114, 114, 111, 114, 32, 99>>
        /\ (direct.errnum = -999999 /\ direct.size = AV_ERROR_MAX_STRING_SIZE) =>
              CStr(direct.errbuf) =
                  <<85, 110, 107, 110, 111, 119, 110, 32, 101, 114, 114, 111, 114, 32,
                    99, 111, 100, 101, 58, 32, 45, 57, 57, 57, 57, 57, 57>>

\* The call av_strerror(-999999, buf, 16) returned.
C4_Witness ==
    /\ direct.done /\ direct.errnum = -999999 /\ direct.size = 16
    /\ direct.ret = AVERROR_UNKNOWN

\* C5: for a code in neither numbering, at whatever capacity, av_strerror
\* returns AVERROR_UNKNOWN and the buffer contains the decimal representation
\* of the code.
C5_FallbackHoldsTheCode ==
    (direct.done /\ Unrecognised(build, direct.errnum)) =>
        /\ direct.ret = AVERROR_UNKNOWN
        /\ Contains(CStr(direct.errbuf), Decimal(direct.errnum))

\* C5, amended: for a code in neither numbering av_strerror returns
\* AVERROR_UNKNOWN, and the buffer contains the decimal representation of the
\* code exactly when the capacity is at least the length of
\* "Unknown error code: <code>" plus one; at a smaller capacity >= 1 it holds
\* the first capacity - 1 bytes of that text, and at capacity 0 nothing is
\* written.
C5_FallbackHoldsTheCodeWhenItFits ==
    (direct.done /\ Unrecognised(build, direct.errnum)) =>
        /\ direct.ret = AVERROR_UNKNOWN
        /\ Contains(CStr(direct.errbuf), Decimal(direct.errnum))
              <=> direct.size >= Len(FallbackText(direct.errnum)) + 1
        /\ direct.size >= 1 =>
              HoldsText(direct.errbuf, FallbackText(direct.errnum), direct.size)
        /\ direct.size = 0 => direct.errbuf = CallerMemory

\* The fallback for -999999 at capacity 28, the least that holds the number.
C5_Witness ==
    /\ direct.done /\ direct.errnum = -999999 /\ direct.size = 28
    /\ direct.ret = AVERROR_UNKNOWN
    /\ Contains(CStr(direct.errbuf), <<45, 57, 57, 57, 57, 57, 57>>)

\* C6: for every int code av_err2str returns a non-empty string that is
\* NUL-terminated within the 64 bytes of the buffer.
C6_Err2strNeverEmpty ==
    \A t \in Threads :
        th[t].calls > 0 =>
            /\ Len(th[t].str) >= 1
            /\ Len(th[t].str) <= AV_ERROR_MAX_STRING_SIZE - 1

\* av_err2str(INT_MIN) returned, after av_strerror reported the failure.
C6_Witness ==
    \E t \in Threads :
        th[t].calls > 0 /\ th[t].errnum = IntMin /\ th[t].ret = AVERROR_UNKNOWN

\* C7: av_err2str(a) and then av_err2str(b) on one thread, a # b, yield two
\* different strings, the second being the string of b alone.
C7_TwoCodesTwoStrings ==
    \A t \in Threads :
        (th[t].calls >= 2 /\ th[t].prev_errnum # th[t].errnum) =>
            /\ th[t].prev_str # th[t].str
            /\ th[t].str \in OwnText(build, th[t].errnum)

\* C7, amended: av_err2str(a) and then av_err2str(b) on one thread, a # b: the
\* second string is the string of b alone, and the two strings are equal only
\* if a and b have the same text (as AVERROR_BUG and AVERROR_BUG2 have).
C7_SecondStringIsItsOwn ==
    \A t \in Threads :
        (th[t].calls >= 2 /\ th[t].prev_errnum # th[t].errnum) =>
            /\ th[t].str \in OwnText(build, th[t].errnum)
            /\ th[t].prev_str = th[t].str =>
                  OwnText(build, th[t].prev_errnum) \cap OwnText(build, th[t].errnum) # {}

\* A long message and then a short one on the same thread.
C7_Witness ==
    \E t \in Threads :
        /\ th[t].calls = 2
        /\ th[t].prev_errnum = AVERROR_HTTP_OTHER_4XX
        /\ th[t].errnum = AVERROR_EOF
        /\ Len(th[t].str) = 11

\* C8: a thread that called av_err2str reads from the returned pointer the
\* string of its own code, whatever the other threads call and when.
C8_ThreadsSeeOwnString ==
    \A t \in Threads :
        th[t].read => th[t].seen \in OwnText(build, th[t].errnum)

\* C9: every message of error_entries is at most 63 bytes long, and for every
\* registered code av_err2str returns the entry's whole message.
C9_RegisteredMessagesComplete ==
    /\ \A i \in 1..Len(error_entries) :
          Len(EntryMessage(i)) <= AV_ERROR_MAX_STRING_SIZE - 1
    /\ \A t \in Threads :
          th[t].calls > 0 =>
              \A i \in 1..Len(error_entries) :
                  th[t].errnum = error_entries[i].num => th[t].str = EntryMessage(i)

\* C10: the pointer av_err2str returned to a thread reads as the string of that
\* thread's most recent av_err2str call: only the thread's next call changes
\* it, and a direct av_strerror call does not.
C10_ReferenceReadsLastCall ==
    \A t \in Threads :
        /\ th[t].calls > 0 => CStr(av_error_buf[BufferOf(build, t)]) = th[t].str
        /\ th[t].read => th[t].seen = th[t].str

\* ---- auxiliary statements
\* The rows that have a str are served from the registry.
RowsWithStrOverride ==
    direct.done =>
        \A i \in 1..Len(error_entries) :
            (/\ direct.errnum = error_entries[i].num /\ direct.size >= 1
             /\ error_entries[i].str # NULL) =>
                /\ direct.ret = 0
                /\ HoldsText(direct.errbuf, EntryMessage(i), direct.size)
                /\ ~direct.sys

\* Where av_error_buf is thread-local, a thread reads its own string.
OwnStringWhereThreadLocal ==
    THREAD_LOCAL(build) => C8_ThreadsSeeOwnString /\ C10_ReferenceReadsLastCall

\* For the rows that have a str, av_err2str returns the whole message.
RowsWithStrComplete ==
    \A t \in Threads :
        th[t].calls > 0 =>
            \A i \in 1..Len(error_entries) :
                (th[t].errnum = error_entries[i].num /\ error_entries[i].str # NULL)
                    => th[t].str = EntryMessage(i)

\* When the description fits, a described code gives 0 and the description.
DescribedCodeThatFits ==
    (/\ direct.done /\ direct.errnum \notin RegistryCodes
     /\ direct.errnum \in {-n : n \in DOMAIN strerror_messages}
     /\ build # "win32"
     /\ direct.size > Len(strerror_messages[-direct.errnum])) =>
        /\ direct.ret = 0
        /\ CStr(direct.errbuf) = strerror_messages[-direct.errnum]

\* A direct av_strerror call leaves av_error_buf as it is.
DirectCallKeepsBuffer == [][direct' # direct => av_error_buf' = av_error_buf]_vars

\* printf("%d", INT_MIN) is "-2147483648".
DecimalOfIntMin ==
    Decimal(IntMin) = <<45, 50, 49, 52, 55, 52, 56, 51, 54, 52, 56>>
====
